---- MODULE Spec2Model ----
(***************************************************************************)
(* HyperLogLog counter (package hyperloglog, counter.go).                  *)
(*                                                                         *)
(* A uint64 is modelled as the set of its set bit positions, a subset of   *)
(* 0..63 (bit 0 is the least significant), so that all 64 bits are kept.   *)
(* A byte and a uint8 are naturals below 256.  A Go slice is a reference:  *)
(* a Counter's regs field is an address in heap, the slice's backing       *)
(* array; Go index i is position i+1 of the sequence.                      *)
(***************************************************************************)
EXTENDS Integers, Sequences, FiniteSets, TLC

VARIABLES
  counters,  \* the Counter objects allocated so far, in allocation order
  heap,      \* the backing arrays of the slices (regs and hbuf), by address
  last,      \* the last call: its arguments and what it returned
  added,     \* history: the elements each counter's registers come from
  calls,     \* history: the number of calls made
  endian,    \* the build's native byte order
  pc,        \* concurrent Add: each thread's position in Add
  loc        \* concurrent Add: each thread's receiver, argument and locals

vars == <<counters, heap, last, added, calls, endian, pc, loc>>

(* ------------------------------ bounds --------------------------------- *)

\* Calls (NewCounter, Add, Count, Error, Merge) a behaviour makes at most.
MaxCalls == 5

\* Distinct elements presented to the counters: 1..NumElems.
NumElems == 2

Elems == 1..NumElems

\* The register counts construction is tried with.
RegisterCounts == {8, 15, 16, 20}

\* One sketch alone is constructed with every register count up to this one.
MaxNumRegisters == 130

Threads == {1, 2}

(* --------------------------- integer helpers --------------------------- *)

Pow2(k) == 2 ^ k

\* The bits of a natural below 2^31.
BitsOf(n) == {k \in 0..30 : (n \div Pow2(k)) % 2 = 1}

Max(x, y) == IF x >= y THEN x ELSE y

Min(x, y) == IF x <= y THEN x ELSE y

\* The bits of a byte.
ByteBits(y) == {t \in 0..7 : (y \div Pow2(t)) % 2 = 1}

SetMax(S) == CHOOSE r \in S : \A q \in S : q <= r

\* The value of a uint64 whose set bits are all below 31.
RECURSIVE ToInt(_)
ToInt(bits) ==
  IF bits = {} THEN 0
  ELSE LET k == CHOOSE k \in bits : TRUE IN Pow2(k) + ToInt(bits \ {k})

(* ------------------------------- hashing ------------------------------- *)

\* crypto/sha256 is a library: the first 8 bytes of the digest of each element
\* are a fixed table (deterministic, as the digest is).
Sum256(x) ==
  CASE x = 1 -> <<0, 0, 0, 0, 0, 0, 0, 0>>
    [] x = 2 -> <<16, 0, 0, 0, 0, 0, 0, 1>>
    [] x = 3 -> <<255, 255, 255, 255, 255, 255, 255, 255>>
    [] OTHER -> <<3, 0, 0, 0, 0, 0, 0, 128>>

\* sha_256, one iteration of its loop: dst[n] = x[n] (n is the Go index).
sha_256_step(dst, src, n) == [dst EXCEPT ![n + 1] = Sum256(src)[n + 1]]

\* sha_256: for n = range dst { dst[n] = x[n] }.
RECURSIVE sha_256_from(_, _, _)
sha_256_from(dst, src, n) ==
  IF n < Len(dst) THEN sha_256_from(sha_256_step(dst, src, n), src, n + 1)
  ELSE dst

sha_256(dst, src) == sha_256_from(dst, src, 0)

\* binary.NativeEndian.Uint64(c.hbuf[:8]): the byte order is the build's.
Uint64(buf, order) ==
  UNION {{8 * (IF order = "little" THEN j - 1 ELSE 8 - j) + t : t \in ByteBits(buf[j])}
         : j \in 1..8}

(* --------------------------- register model ---------------------------- *)

\* Mutant: the bound of the error text ("must be greater than 16").
minNumRegistersGreater == 16 + 1

minNumRegisters == 16

\* Mutant: the logarithm rounded up.
RECURSIVE Log2Ceil(_)
Log2Ceil(n) == IF n < 2 THEN 0 ELSE 1 + Log2Ceil((n + 1) \div 2)

\* uint64(math.Log2(float64(numRegisters))): the truncated base-2 logarithm,
\* exact for every uint32 (float64 holds a uint32 exactly).
RECURSIVE Log2Floor(_)
Log2Floor(n) == IF n < 2 THEN 0 ELSE 1 + Log2Floor(n \div 2)

\* alpha(m) as the exact fraction num/den; panic when m < 16.
alpha(m) ==
  IF m < 16 THEN [panic |-> TRUE, num |-> 0, den |-> 1]
  ELSE IF m <= 32 THEN [panic |-> FALSE, num |-> 673, den |-> 1000]
  ELSE IF m <= 64 THEN [panic |-> FALSE, num |-> 697, den |-> 1000]
  ELSE IF m <= 128 THEN [panic |-> FALSE, num |-> 709, den |-> 1000]
  ELSE [panic |-> FALSE, num |-> 7213 * m, den |-> 10000 * m + 10790]

\* numZeroes: the loop from the most significant bit down; i stops at 64.
RECURSIVE numZeroesFrom(_, _)
numZeroesFrom(v, i) ==
  IF i < 64 /\ (63 - i) \notin v THEN numZeroesFrom(v, i + 1) ELSE i

numZeroes(v) == numZeroesFrom(v, 0)

\* numZeroes(v)+1 in uint8 arithmetic.
Rank(v) == (numZeroes(v) + 1) % 256

\* The bits of (1 << b) - 1.
LowMask(b) == {k \in 0..63 : k < b}

\* Mutant: the mask m - 1 instead of (1 << b) - 1.
RegIndexMaskM(v, c) == ToInt(v \cap BitsOf(c.m - 1))

\* i := v & ((1 << c.b) - 1)
RegIndex(v, c) == ToInt(v \cap LowMask(c.b))

\* Mutant: the register is overwritten, without max.
RegUpdateOverwrite(old, rank) == rank

\* max(c.regs[i], numZeroes(v)+1)
RegUpdate(old, rank) == Max(old, rank)

\* NewCounter's value: the error, or the fields of the new Counter with the
\* contents of its fresh regs array (the caller of make gets a new address).
NewCounter(numRegisters) ==
  IF numRegisters < minNumRegisters
  THEN [result |-> "errNumRegistersTooSmall"]
  ELSE IF alpha(numRegisters).panic
  THEN [result |-> "panic"]
  ELSE [result |-> "ok",
        m      |-> numRegisters,
        b      |-> Log2Floor(numRegisters),
        alpha  |-> [num |-> alpha(numRegisters).num, den |-> alpha(numRegisters).den],
        regs   |-> [i \in 1..numRegisters |-> 0],
        hbuf   |-> [j \in 1..8 |-> 0]]

\* Add on counter c, whose slices hold regs and hbuf: the new contents of
\* both arrays, or the index-out-of-range panic of c.regs[i].
Add(c, regs, hbuf, in, order) ==
  LET hb == sha_256(hbuf, in)
      v  == Uint64(hb, order)
      i  == RegIndex(v, c)
  IN  IF i >= Len(regs)
      THEN [panic |-> TRUE, hbuf |-> hb, regs |-> regs]
      ELSE [panic |-> FALSE, hbuf |-> hb,
            regs |-> [regs EXCEPT ![i + 1] = RegUpdate(regs[i + 1], Rank(v))]]

\* Mutant: the receiver's registers alone.
MergeRegsLeft(fresh, cregs, oregs) ==
  [i \in DOMAIN fresh |-> IF i \in DOMAIN cregs THEN cregs[i] ELSE fresh[i]]

\* Mutant: the smaller register.
MergeRegsMin(fresh, cregs, oregs) ==
  [i \in DOMAIN fresh |->
     IF i \in DOMAIN cregs THEN Min(cregs[i], oregs[i]) ELSE fresh[i]]

\* Merge's loop: for i, reg := range c.regs { merged.regs[i] = max(reg, other.regs[i]) }
MergeRegs(fresh, cregs, oregs) ==
  [i \in DOMAIN fresh |->
     IF i \in DOMAIN cregs THEN Max(cregs[i], oregs[i]) ELSE fresh[i]]

\* Merge: the error, or the new Counter (NewCounter(uint32(c.m)); c.m came
\* from a uint32, so the conversion keeps it) with the merged registers.
Merge(c, other, cregs, oregs) ==
  IF other.m # c.m
  THEN [result |-> "errMergeCounterMismatch"]
  ELSE LET merged == NewCounter(c.m)
       IN  IF merged.result # "ok" THEN [result |-> merged.result]
           ELSE [merged EXCEPT !.regs = MergeRegs(merged.regs, cregs, oregs)]

(* ------------------------------ estimation ----------------------------- *)
(* Count's float64 arithmetic is modelled by exact arithmetic on the reals *)
(* it approximates: z is the dyadic rational sum of 2^-reg, alpha the      *)
(* fraction num/den, and each comparison of correction is decided exactly  *)
(* through floors, without forming a number beyond 2^31.                   *)

MaxReg(regs) == SetMax({regs[i] : i \in DOMAIN regs})

NumEq(regs, k) == Cardinality({i \in DOMAIN regs : regs[i] = k})

\* floor(w * sum over the registers reg >= k of 2^(k - reg)); top is MaxReg(regs).
RECURSIVE ZFloorTo(_, _, _, _)
ZFloorTo(regs, w, k, top) ==
  IF k > top THEN 0
  ELSE w * NumEq(regs, k) + (ZFloorTo(regs, w, k + 1, top) \div 2)

ZFloor(regs, w, k) == ZFloorTo(regs, w, k, MaxReg(regs))

\* Whether that sum times w is an integer.
RECURSIVE ZExactTo(_, _, _, _)
ZExactTo(regs, w, k, top) ==
  IF k > top THEN TRUE
  ELSE (ZFloorTo(regs, w, k + 1, top) % 2 = 0) /\ ZExactTo(regs, w, k + 1, top)

ZExact(regs, w, k) == ZExactTo(regs, w, k, MaxReg(regs))

SatCap == Pow2(29)

\* min(SatCap, w * 2^k * sum over the registers reg <= k of 2^-reg).
RECURSIVE ZHorner(_, _, _)
ZHorner(regs, w, k) ==
  IF k = 0 THEN Min(SatCap, w * NumEq(regs, 0))
  ELSE Min(SatCap, 2 * ZHorner(regs, w, k - 1) + w * NumEq(regs, k))

\* min(SatCap, floor(w * 2^32 * z)).
ZShift32(regs, w) ==
  Min(SatCap, 2 * ZHorner(regs, w, 31) + ZFloor(regs, w, 32))

\* e < (2.0/5)*float64(c.m), with e = alpha * float64(c.m*c.m) * (1/z):
\* 5 * num * m*m < 2 * m * den * z.
SmallRange(c, regs) ==
  LET lhs == 5 * c.alpha.num * (c.m * c.m)
      w   == 2 * c.m * c.alpha.den
      f   == ZFloor(regs, w, 0)
  IN  f > lhs \/ (f = lhs /\ ~ZExact(regs, w, 0))

\* e > (1.0/30)*(1<<32): 30 * num * m*m > 2^32 * den * z.
LargeRange(c, regs) ==
  ZShift32(regs, c.alpha.den) < 30 * c.alpha.num * (c.m * c.m)

\* correction: the branch taken, V (the registers at 0, counted in the small
\* range only) and whether the value returned is 0.  m*log10(m/V) is 0 exactly
\* when V = m; e itself and the large-range value are never 0 (e >= alpha*m).
correction(c, regs) ==
  IF SmallRange(c, regs)
  THEN LET v == NumEq(regs, 0)
       IN  [branch |-> "small", V |-> v, zero |-> (v # 0 /\ v = c.m)]
  ELSE IF LargeRange(c, regs)
  THEN [branch |-> "large", V |-> 0, zero |-> FALSE]
  ELSE [branch |-> "none", V |-> 0, zero |-> FALSE]

Count(c, regs) == correction(c, regs)

\* Error: 1.04 * sqrt(m), given by its square in units of 1/10000.
ErrorSquared(c) == 10816 * c.m

(* ------------------------- the sequential program ------------------------ *)

NoCount == [branch |-> "-", V |-> 0, zero |-> FALSE]

\* A call: op on counter recv (and counter other) with argument arg returned
\* result, the counter out, the Count value count, the Error value errsq;
\* seen: the element was added to recv before.
Call(op, recv, other, arg, result, out, count, errsq, seen) ==
  [op |-> op, recv |-> recv, other |-> other, arg |-> arg, result |-> result,
   out |-> out, count |-> count, errsq |-> errsq, seen |-> seen]

NoCall == Call("none", 0, 0, 0, "ok", 0, NoCount, 0, FALSE)

NoLoc == [c |-> 0, x |-> 0, n |-> 0, v |-> {}, i |-> 0, old |-> 0]

\* The registers of counter k: the array its regs slice refers to.
Regs(k) == heap[counters[k].regs]

\* The scratch buffer of counter k.
Hbuf(k) == heap[counters[k].hbuf]

\* make([]uint8, c.m): a fresh array, at the next address of heap hp.
RegsAddr(hp) == Len(hp) + 1

\* Mutant: one scratch buffer for all counters, the first one allocated.
HbufAddrShared(hp) == 2

\* make([]byte, 8): a fresh array, after the regs array.
HbufAddr(hp) == Len(hp) + 2

\* Heap hp with the array at address a holding val.
Store(hp, a, val) ==
  IF a > Len(hp) THEN Append(hp, val) ELSE [hp EXCEPT ![a] = val]

\* The heap after the allocations of a Counter built as r.
AllocHeap(hp, r) == Store(Store(hp, RegsAddr(hp), r.regs), HbufAddr(hp), r.hbuf)

\* Mutant: every Counter's regs slice refers to the first array allocated.
ObjectAliased(hp, r) ==
  [m |-> r.m, b |-> r.b, alpha |-> r.alpha,
   regs |-> IF Len(hp) >= 1 THEN 1 ELSE Len(hp) + 1, hbuf |-> Len(hp) + 2]

\* The Counter object built as r, its slices referring to the new arrays.
Object(hp, r) ==
  [m |-> r.m, b |-> r.b, alpha |-> r.alpha,
   regs |-> RegsAddr(hp), hbuf |-> HbufAddr(hp)]

Init ==
  /\ counters = << >>
  /\ heap = << >>
  /\ added = << >>
  /\ last = NoCall
  /\ calls = 0
  /\ endian \in {"little", "big"}
  /\ pc = [t \in Threads |-> "idle"]
  /\ loc = [t \in Threads |-> NoLoc]

\* Every call counts; a behaviour makes at most MaxCalls.
Budget == calls < MaxCalls /\ calls' = calls + 1

DoNewCounter(n) ==
  LET r == NewCounter(n)
  IN  /\ Budget
      /\ IF r.result = "ok"
         THEN /\ heap' = AllocHeap(heap, r)
              /\ counters' = Append(counters, Object(heap, r))
              /\ added' = Append(added, {})
              /\ last' = Call("NewCounter", 0, 0, n, "ok", Len(counters) + 1,
                              NoCount, 0, FALSE)
         ELSE /\ UNCHANGED <<heap, counters, added>>
              /\ last' = Call("NewCounter", 0, 0, n, r.result, 0, NoCount, 0, FALSE)
      /\ UNCHANGED <<endian, pc, loc>>

DoAdd(k, x) ==
  LET r == Add(counters[k], Regs(k), Hbuf(k), x, endian)
  IN  /\ Budget
      /\ heap' = Store(Store(heap, counters[k].hbuf, r.hbuf), counters[k].regs, r.regs)
      /\ added' = [added EXCEPT ![k] = @ \cup {x}]
      /\ last' = Call("Add", k, 0, x, IF r.panic THEN "panic" ELSE "ok", 0,
                      NoCount, 0, x \in added[k])
      /\ UNCHANGED <<counters, endian, pc, loc>>

DoCount(k) ==
  /\ Budget
  /\ last' = Call("Count", k, 0, 0, "ok", 0, Count(counters[k], Regs(k)), 0, FALSE)
  /\ UNCHANGED <<counters, heap, added, endian, pc, loc>>

DoError(k) ==
  /\ Budget
  /\ last' = Call("Error", k, 0, 0, "ok", 0, NoCount, ErrorSquared(counters[k]), FALSE)
  /\ UNCHANGED <<counters, heap, added, endian, pc, loc>>

DoMerge(k, o) ==
  LET r == Merge(counters[k], counters[o], Regs(k), Regs(o))
  IN  /\ Budget
      /\ IF r.result = "ok"
         THEN /\ heap' = AllocHeap(heap, r)
              /\ counters' = Append(counters, Object(heap, r))
              /\ added' = Append(added, added[k] \cup added[o])
              /\ last' = Call("Merge", k, o, 0, "ok", Len(counters) + 1,
                              NoCount, 0, FALSE)
         ELSE /\ UNCHANGED <<heap, counters, added>>
              /\ last' = Call("Merge", k, o, 0, r.result, 0, NoCount, 0, FALSE)
      /\ UNCHANGED <<endian, pc, loc>>

\* One call of the sequential program.
Next ==
  \/ \E n \in RegisterCounts : DoNewCounter(n)
  \/ \E k \in DOMAIN counters : \E x \in Elems : DoAdd(k, x)
  \/ \E k \in DOMAIN counters : DoCount(k)
  \/ \E k \in DOMAIN counters : DoError(k)
  \/ \E k \in DOMAIN counters : \E o \in DOMAIN counters : DoMerge(k, o)

Spec == Init /\ [][Next]_vars

(* -------------------- one sketch, every register count ------------------- *)

\* The first construction of a behaviour.
DoNewCounterFirst(n) == counters = << >> /\ DoNewCounter(n)

NextWide ==
  \/ \E n \in 0..MaxNumRegisters : DoNewCounterFirst(n)
  \/ \E k \in DOMAIN counters : \E x \in Elems : DoAdd(k, x)

SpecWide == Init /\ [][NextWide]_vars

(* ---------------------------- concurrent Add ----------------------------- *)
(* Two threads each make one Add call, on one shared sketch or on a sketch  *)
(* each; Add has no lock, so its memory accesses interleave: the writes of  *)
(* sha_256 into hbuf byte by byte, the read of hbuf, the read of regs[i]    *)
(* and the write of regs[i].                                                *)

InitConc ==
  \E n \in {q \in RegisterCounts : NewCounter(q).result = "ok"} :
    \E shared \in BOOLEAN :
      LET r  == NewCounter(n)
          h1 == AllocHeap(<< >>, r)
      IN  /\ counters = <<Object(<< >>, r), Object(h1, r)>>
          /\ heap = AllocHeap(h1, r)
          /\ loc \in [Threads -> {[NoLoc EXCEPT !.x = x, !.c = k] : x \in Elems, k \in {1, 2}}]
          /\ loc[1].c = 1
          /\ loc[2].c = IF shared THEN 1 ELSE 2
          /\ pc = [t \in Threads |-> "hash"]
          /\ added = <<{}, {}>>
          /\ last = NoCall
          /\ calls = 0
          /\ endian \in {"little", "big"}

\* c.hash(c.hbuf, in), one iteration of sha_256's loop.
HashByte(t) ==
  LET k == loc[t].c
      n == loc[t].n
  IN  /\ pc[t] = "hash"
      /\ heap' = [heap EXCEPT ![counters[k].hbuf] = sha_256_step(@, loc[t].x, n)]
      /\ loc' = [loc EXCEPT ![t].n = n + 1]
      /\ pc' = [pc EXCEPT ![t] = IF n + 1 < Len(Hbuf(k)) THEN "hash" ELSE "load"]
      /\ UNCHANGED <<counters, last, added, calls, endian>>

\* v := binary.NativeEndian.Uint64(c.hbuf[:8]); i := v & ((1 << c.b) - 1)
LoadHash(t) ==
  LET k == loc[t].c
      v == Uint64(Hbuf(k), endian)
  IN  /\ pc[t] = "load"
      /\ loc' = [loc EXCEPT ![t].v = v, ![t].i = RegIndex(v, counters[k])]
      /\ pc' = [pc EXCEPT ![t] = "read"]
      /\ UNCHANGED <<counters, heap, last, added, calls, endian>>

\* The read of c.regs[i] in max(c.regs[i], ...), or its index panic.
ReadReg(t) ==
  LET k == loc[t].c
  IN  /\ pc[t] = "read"
      /\ IF loc[t].i >= Len(Regs(k))
         THEN /\ pc' = [pc EXCEPT ![t] = "panic"]
              /\ UNCHANGED loc
         ELSE /\ pc' = [pc EXCEPT ![t] = "write"]
              /\ loc' = [loc EXCEPT ![t].old = Regs(k)[loc[t].i + 1]]
      /\ UNCHANGED <<counters, heap, last, added, calls, endian>>

\* c.regs[i] = max(old, numZeroes(v)+1)
WriteReg(t) ==
  LET k == loc[t].c
  IN  /\ pc[t] = "write"
      /\ heap' = [heap EXCEPT ![counters[k].regs][loc[t].i + 1] =
                                 RegUpdate(loc[t].old, Rank(loc[t].v))]
      /\ pc' = [pc EXCEPT ![t] = "done"]
      /\ UNCHANGED <<counters, loc, last, added, calls, endian>>

NextConc ==
  \/ \E t \in Threads : HashByte(t)
  \/ \E t \in Threads : LoadHash(t)
  \/ \E t \in Threads : ReadReg(t)
  \/ \E t \in Threads : WriteReg(t)

SpecConc == InitConc /\ [][NextConc]_vars

(* ------------------------------ properties ------------------------------ *)

\* The 64-bit hash value Add reads for element x.
HashOf(x) == Uint64(Sum256(x), endian)

\* The leading zero bits of a 64-bit value, and its rank.
LeadingZeros(v) == IF v = {} THEN 64 ELSE 63 - SetMax(v)

RankOf(v) == LeadingZeros(v) + 1

\* b = floor(log2(m)).
IsFloorLog2(b, m) == Pow2(b) <= m /\ m < Pow2(b + 1)

\* v AND (m - 1), and the low floor(log2(m)) bits of v.
IndexMaskM(v, m) == ToInt(v \cap BitsOf(m - 1))

IndexLowBits(v, m) == ToInt({k \in v : Pow2(Min(k, 29) + 1) <= m})

AllZero(regs) == \A i \in DOMAIN regs : regs[i] = 0

NoSharing ==
  \A j, k \in DOMAIN counters :
    /\ counters[j].regs # counters[k].hbuf
    /\ j # k => counters[j].regs # counters[k].regs

\* C2: Merge fails with the mismatch error exactly when the register counts
\* differ; otherwise it returns a new sketch of the same m whose register i is
\* the larger of the operands' registers i.  Either way the operands' m, b,
\* alpha and registers are unchanged, the result shares no array with them, and
\* an Add on one sketch changes no register of another.
C2_Merge ==
  [][/\ last'.op = "Merge" =>
          LET a == last'.recv
              o == last'.other
              k == last'.out
          IN  /\ (last'.result = "errMergeCounterMismatch")
                   <=> (counters[a].m # counters[o].m)
              /\ \A j \in DOMAIN counters :
                   /\ counters'[j] = counters[j]
                   /\ heap'[counters'[j].regs] = heap[counters[j].regs]
              /\ counters[a].m # counters[o].m => (k = 0 /\ counters' = counters)
              /\ counters[a].m = counters[o].m =>
                   /\ last'.result = "ok"
                   /\ k = Len(counters) + 1 /\ Len(counters') = k
                   /\ counters'[k].m = counters[a].m
                   /\ counters'[k].b = counters[a].b
                   /\ counters'[k].alpha = counters[a].alpha
                   /\ Len(heap'[counters'[k].regs]) = counters[a].m
                   /\ \A i \in 1..counters[a].m :
                        heap'[counters'[k].regs][i]
                          = Max(heap[counters[a].regs][i], heap[counters[o].regs][i])
                   /\ \A j \in DOMAIN counters :
                        counters'[k].regs # counters[j].regs
     /\ last'.op = "Add" =>
          \A j \in DOMAIN counters :
            j # last'.recv => heap'[counters'[j].regs] = heap[counters[j].regs]
     /\ NoSharing']_vars

\* C2's case: two different sketches with different registers were merged.
C2_Witness ==
  /\ last.op = "Merge" /\ last.result = "ok" /\ last.recv # last.other
  /\ Regs(last.out) # Regs(last.recv)
  /\ Regs(last.out) # Regs(last.other)

\* The registers of Merge(a, b), for sketches given as <<counter, registers>>.
Merged(a, b) ==
  LET r == Merge(a[1], b[1], a[2], b[2]) IN <<r, r.regs>>

Sketch(k) == <<counters[k], Regs(k)>>

\* One counter for each different pair of register count and registers.
Distinct ==
  {k \in DOMAIN counters :
     \A j \in DOMAIN counters :
       (counters[j].m = counters[k].m /\ Regs(j) = Regs(k)) => j >= k}

\* C3: on reachable sketches of the same register count Merge is commutative,
\* associative and idempotent on the registers.
C3_MergeAlgebra ==
  \A a \in Distinct :
    /\ Merged(Sketch(a), Sketch(a))[2] = Regs(a)
    /\ \A b \in Distinct :
         counters[a].m = counters[b].m =>
           LET ab == Merged(Sketch(a), Sketch(b))
           IN  /\ ab[2] = Merged(Sketch(b), Sketch(a))[2]
               /\ \A c \in Distinct :
                    counters[b].m = counters[c].m =>
                      Merged(ab, Sketch(c))[2]
                        = Merged(Sketch(a), Merged(Sketch(b), Sketch(c)))[2]

\* C3's case: three sketches of one register count, with different registers.
C3_Witness ==
  \E a, b, c \in DOMAIN counters :
    /\ counters[a].m = counters[b].m /\ counters[b].m = counters[c].m
    /\ Regs(a) # Regs(b) /\ Regs(b) # Regs(c) /\ Regs(a) # Regs(c)
    /\ Merged(Sketch(a), Sketch(b))[2] # Regs(a)

\* C4: a sketch on which Add was never called counts 0, through the small-range
\* branch with V = m.
C4_EmptyCountIsZero ==
  (last.op = "Count" /\ AllZero(Regs(last.recv)) /\ added[last.recv] = {}) =>
    /\ last.count.branch = "small"
    /\ last.count.V = counters[last.recv].m
    /\ last.count.zero

\* C5: adding an element that was added to the sketch before leaves every
\* register unchanged.
C5_DuplicateInsensitive ==
  [][(last'.op = "Add" /\ last'.seen) =>
       heap'[counters'[last'.recv].regs] = heap[counters[last'.recv].regs]]_vars

\* C5's case: an element was added again after another element had raised the
\* register it maps to.
C5_Witness ==
  /\ last.op = "Add" /\ last.seen
  /\ Cardinality(added[last.recv]) >= 2
  /\ \E i \in DOMAIN Regs(last.recv) :
       /\ i = IndexLowBits(HashOf(last.arg), counters[last.recv].m) + 1
       /\ Regs(last.recv)[i] > RankOf(HashOf(last.arg))

\* Hash values for the index computation: every pattern of the low six bits,
\* alone and below set high bits.
SampleHashes ==
  {low \cup high : low \in SUBSET (0..5), high \in {{}, 6..63}}

\* C6: no call on a constructed sketch fails abnormally: Add's register index
\* is below m for every hash value (checked of each sketch as NewCounter or
\* Merge returns it: m and b do not change afterwards), alpha's panic is not
\* reached, and Merge on equal register counts does not return the
\* register-count error.
C6_NoAbnormalFailure ==
  /\ last.result # "panic"
  /\ last.op \in {"Add", "Count", "Error"} => last.result = "ok"
  /\ (last.op = "Merge" /\ counters[last.recv].m = counters[last.other].m)
       => last.result = "ok"
  /\ \A k \in DOMAIN counters :
       /\ ~alpha(counters[k].m).panic
       /\ Len(Regs(k)) = counters[k].m
  /\ \A k \in DOMAIN counters :
       k = last.out => \A v \in SampleHashes : RegIndex(v, counters[k]) < counters[k].m

\* C6's case: an Add on a sketch whose register count is no power of two, of
\* an element whose hash has a bit set that m - 1 has and the index mask lacks.
C6_Witness ==
  /\ last.op = "Add" /\ last.result = "ok"
  /\ counters[last.recv].m = 20
  /\ 4 \in HashOf(last.arg)

\* The registers after Add(x) on registers regs, the register at index i
\* raised to the rank of x's hash.
AfterAdd(regs, i, x) == [regs EXCEPT ![i + 1] = Max(@, RankOf(HashOf(x)))]

\* C7, as claimed: Add raises the register at index v AND (m - 1) to
\* max(old, rank(v)) and changes no other register.
C7_IndexMaskM ==
  [][last'.op = "Add" =>
       heap'[counters'[last'.recv].regs]
         = AfterAdd(heap[counters[last'.recv].regs],
                    IndexMaskM(HashOf(last'.arg), counters[last'.recv].m),
                    last'.arg)]_vars

\* C7, amended: Add raises the register at index v AND (2^b - 1), b =
\* floor(log2(m)), to max(old, rank(v)) and changes no other register; the
\* index is v AND (m - 1) when m is a power of two.
C7_IndexLowBits ==
  [][last'.op = "Add" =>
       LET m == counters[last'.recv].m
           v == HashOf(last'.arg)
       IN  /\ heap'[counters'[last'.recv].regs]
                = AfterAdd(heap[counters[last'.recv].regs],
                           IndexLowBits(v, m), last'.arg)
           /\ (\E b \in 0..30 : Pow2(b) = m) => IndexLowBits(v, m) = IndexMaskM(v, m)]_vars

\* C7's case: an Add that raised a register, on a sketch of 20 registers, of
\* an element for which the two indexes differ.
C7_Witness ==
  /\ last.op = "Add" /\ last.result = "ok"
  /\ counters[last.recv].m = 20
  /\ IndexLowBits(HashOf(last.arg), 20) # IndexMaskM(HashOf(last.arg), 20)
  /\ Regs(last.recv)[IndexLowBits(HashOf(last.arg), 20) + 1] = RankOf(HashOf(last.arg))

\* C8: the register array has exactly m entries; m, b and alpha never change;
\* every register lies in 0..65; no register ever decreases.
C8_Invariants ==
  [][\A k \in DOMAIN counters :
       /\ k \in DOMAIN counters'
       /\ counters'[k].m = counters[k].m
       /\ counters'[k].b = counters[k].b
       /\ counters'[k].alpha = counters[k].alpha
       /\ Len(heap'[counters'[k].regs]) = counters[k].m
       /\ Len(heap[counters[k].regs]) = counters[k].m
       /\ \A i \in 1..counters[k].m :
            /\ heap'[counters'[k].regs][i] \in 0..65
            /\ heap'[counters'[k].regs][i] >= heap[counters[k].regs][i]]_vars

\* C8's case: the all-zero hash was added (rank 65) and a lower rank was added
\* to the same register afterwards.
C8_Witness ==
  /\ last.op = "Add"
  /\ \E i \in DOMAIN Regs(last.recv) :
       /\ Regs(last.recv)[i] = 65
       /\ i = IndexLowBits(HashOf(last.arg), counters[last.recv].m) + 1
       /\ RankOf(HashOf(last.arg)) < 65

\* The orders in which the elements of S can be added.
RECURSIVE Orders(_)
Orders(S) ==
  IF S = {} THEN {<< >>}
  ELSE UNION {{<<x>> \o q : q \in Orders(S \ {x})} : x \in S}

\* The registers of a sketch built as c after adding the elements of q in turn.
RECURSIVE AddAll(_, _, _, _)
AddAll(c, regs, hbuf, q) ==
  IF q = << >> THEN regs
  ELSE LET r == Add(c, regs, hbuf, Head(q), endian)
       IN  AddAll(c, r.regs, r.hbuf, Tail(q))

\* C10: every sketch, merged or not, has the registers of one fresh sketch to
\* which all the elements it comes from were added, in any order.
C10_MergeIsUnion ==
  \A s \in {<<counters[k].m, added[k], Regs(k)>> : k \in DOMAIN counters} :
    \A q \in Orders(s[2]) :
      LET f == NewCounter(s[1])
      IN  s[3] = AddAll(f, f.regs, f.hbuf, q)

\* C10's case: the merge of two sketches built from different elements, which
\* has the registers of neither.
C10_Witness ==
  /\ last.op = "Merge" /\ last.result = "ok"
  /\ added[last.recv] # {} /\ added[last.other] # {}
  /\ added[last.recv] # added[last.other]
  /\ Regs(last.out) # Regs(last.recv)
  /\ Regs(last.out) # Regs(last.other)

\* The registers of a fresh sketch like counter k after adding the elements
\* of q in turn, each Add running alone.
Sequential(k, q) ==
  LET f == NewCounter(counters[k].m)
  IN  AddAll(counters[k], f.regs, f.hbuf, q)

AllDone == \A t \in Threads : pc[t] = "done"

\* C9: Add calls running concurrently on distinct sketches do not interfere:
\* whatever the interleaving, no call panics and each sketch ends with the
\* registers its own Add yields alone (the interleaving of two Add calls on
\* one sketch that ends otherwise is C9_Witness).
C9_PrivateAddsIsolated ==
  loc[1].c # loc[2].c =>
    /\ \A t \in Threads : pc[t] # "panic"
    /\ \A t \in Threads :
         Regs(loc[t].c) \in {Sequential(loc[t].c, << >>),
                             Sequential(loc[t].c, <<loc[t].x>>)}
    /\ AllDone =>
         \A t \in Threads : Regs(loc[t].c) = Sequential(loc[t].c, <<loc[t].x>>)

\* C9's case: two Add calls on one sketch, both returned, and the registers
\* are those of neither sequential order: a register is lower than both give.
C9_Witness ==
  /\ AllDone
  /\ loc[1].c = loc[2].c
  /\ Regs(1) # Sequential(1, <<loc[1].x, loc[2].x>>)
  /\ Regs(1) # Sequential(1, <<loc[2].x, loc[1].x>>)
  /\ \E i \in DOMAIN Regs(1) :
       /\ Regs(1)[i] < Sequential(1, <<loc[1].x, loc[2].x>>)[i]
       /\ Regs(1)[i] < Sequential(1, <<loc[2].x, loc[1].x>>)[i]

====
